---- MODULE Spec2Model ----
(***************************************************************************)
(* FastNetMon blackhole exporter (exporter.go).                            *)
(*                                                                         *)
(* One goroutine (startScrapingLoop) polls the FastNetMon API and rewrites *)
(* the GaugeVec blockedIP; the HTTP server renders blockedIP on /metrics   *)
(* and answers /health.  The GaugeVec is the client_golang one: a map from *)
(* label values to gauge objects guarded by a RWMutex (Reset and With take *)
(* it, Collect read-locks it), each gauge holding its value in an atomic   *)
(* word that Set stores and Write loads.                                   *)
(***************************************************************************)
EXTENDS Integers, Sequences, FiniteSets, TLC

\* ------------------------------------------------------------------ bounds

\* Cycles of the scrape loop that are explored.
MaxCycles == 3
\* Longest "values" list of a payload.
MaxValues == 2

\* ------------------------------------------------------------- payloads

\* BlockedValue: the (ip, uuid) pairs the API may report; the two share the
\* ip, so that a series is seen to be keyed by the pair.
BlockedValue ==
    { [ip |-> "1.2.3.4", uuid |-> "u1"],
      [ip |-> "1.2.3.4", uuid |-> "u2"] }

ValueLists == UNION { [1..n -> BlockedValue] : n \in 0..MaxValues }

\* A response body: bytes that are not a BlackholeResponse document, or a
\* document with its success flag and its values list.
Malformed == [kind |-> "malformed", success |-> FALSE, values |-> <<>>]

NilBody == [kind |-> "nil", success |-> FALSE, values |-> <<>>]

Bodies ==
    {Malformed} \cup
    { [kind |-> "json", success |-> s, values |-> v] :
        s \in BOOLEAN, v \in ValueLists }

\* json.Unmarshal(body, &resp): an error for bytes that do not decode,
\* otherwise the BlackholeResponse struct.
Unmarshal(b) ==
    IF b.kind = "json"
    THEN [err |-> FALSE, Success |-> b.success, Values |-> b.values]
    ELSE [err |-> TRUE, Success |-> FALSE, Values |-> <<>>]

Range(s) == { s[i] : i \in DOMAIN s }

\* The bodies a response with another status than 200 carries (the code
\* returns before reading them).
ErrorBodies ==
    { Malformed,
      [kind |-> "json", success |-> TRUE,
       values |-> <<[ip |-> "1.2.3.4", uuid |-> "u1"]>>] }

\* What one round trip of httpClient.Do and io.ReadAll can give:
\* NewRequest fails, Do fails (transport error or the 10 s timeout), a
\* response whose body cannot be read, or a response with status and body.
StatusOK == 200

StatusCodes == {200, 500}

HttpOutcomes ==
    { [stage |-> "request", status |-> 0, payload |-> NilBody],
      [stage |-> "do", status |-> 0, payload |-> NilBody] } \cup
    { [stage |-> "read", status |-> StatusOK, payload |-> NilBody] } \cup
    { [stage |-> "resp", status |-> StatusOK, payload |-> b] : b \in Bodies } \cup
    { [stage |-> "resp", status |-> s, payload |-> b] :
        s \in StatusCodes \ {StatusOK}, b \in ErrorBodies }

NoResponse == [stage |-> "none", status |-> 0, payload |-> NilBody]

\* -------------------------------------------------------- scrape interval

\* Longest generated value of EXPORTER_SCRAPE_INTERVAL_SECONDS.
MaxIntervalLen == 2

\* The characters the generated values are made of.
IntervalChars == {"-", "+", "0", "1", "7", "x"}

\* Values that reach the ends of the int range: the largest number of
\* seconds that fits a Duration and the next one, a multiple of 2^55, a
\* product that wraps to a small positive Duration, the largest int, and
\* the first numbers outside the int range.
LongIntervals ==
    { <<"9","2","2","3","3","7","2","0","3","6">>,
      <<"9","2","2","3","3","7","2","0","3","7">>,
      <<"3","6","0","2","8","7","9","7","0","1","8","9","6","3","9","6","8">>,
      <<"1","8","4","4","6","7","4","4","0","7","4">>,
      <<"9","2","2","3","3","7","2","0","3","6","8","5","4","7","7","5","8","0","7">>,
      <<"9","2","2","3","3","7","2","0","3","6","8","5","4","7","7","5","8","0","8">>,
      <<"-","9","2","2","3","3","7","2","0","3","6","8","5","4","7","7","5","8","0","8">>,
      <<"-","9","2","2","3","3","7","2","0","3","6","8","5","4","7","7","5","8","0","9">> }

\* The values of EXPORTER_SCRAPE_INTERVAL_SECONDS (<<>>: unset or empty).
IntervalStrings ==
    UNION { [1..n -> IntervalChars] : n \in 0..MaxIntervalLen } \cup LongIntervals

\* Integers are sequences of bytes, least significant first: an int and a
\* time.Duration are 64 bits wide, beyond the integers of the checker.
Byte == 256

IntBytes == 8

RECURSIVE Zeros(_)
Zeros(n) == IF n = 0 THEN <<>> ELSE <<0>> \o Zeros(n - 1)

\* The number n < 256 in w bytes.
Small(n, w) == <<n>> \o Zeros(w - 1)

\* x * k + carry in Len(x) bytes, from byte i on (the carry out is dropped:
\* the arithmetic is modulo 256^Len(x)).
RECURSIVE MulAddFrom(_, _, _, _)
MulAddFrom(x, k, carry, i) ==
    IF i > Len(x) THEN <<>>
    ELSE LET t == x[i] * k + carry
         IN <<t % Byte>> \o MulAddFrom(x, k, t \div Byte, i + 1)

MulAdd(x, k, d) == MulAddFrom(x, k, d, 1)

\* x * 10^n modulo 256^Len(x).
RECURSIVE TimesTenTo(_, _)
TimesTenTo(x, n) == IF n = 0 THEN x ELSE TimesTenTo(MulAdd(x, 10, 0), n - 1)

\* x widened to w bytes.
Widen(x, w) == x \o Zeros(w - Len(x))

\* The two's complement reading of 8 bytes.
IsZero(x) == \A i \in DOMAIN x : x[i] = 0
IsNegative(x) == x[IntBytes] >= 128
IsPositive(x) == ~IsNegative(x) /\ ~IsZero(x)

\* strconv.Atoi's digits.
IsDigit(c) == c \in {"0", "1", "2", "3", "4", "5", "6", "7", "8", "9"}

DigitVal(c) ==
    CASE c = "0" -> 0 [] c = "1" -> 1 [] c = "2" -> 2 [] c = "3" -> 3
      [] c = "4" -> 4 [] c = "5" -> 5 [] c = "6" -> 6 [] c = "7" -> 7
      [] c = "8" -> 8 [] c = "9" -> 9

\* A magnitude of 9 bytes is beyond 2^63 - 1, or beyond 2^63.
Above63(m) == m[9] > 0 \/ m[8] >= 128
Above63Neg(m) ==
    \/ m[9] > 0
    \/ m[8] > 128
    \/ m[8] = 128 /\ \E i \in 1..7 : m[i] # 0

\* The digits s[i..] accumulated onto acc (9 bytes): a character that is no
\* digit is a syntax error, a magnitude outside the int range a range error.
RECURSIVE ParseDigits(_, _, _, _)
ParseDigits(s, i, acc, neg) ==
    IF i > Len(s) THEN [err |-> FALSE, mag |-> acc]
    ELSE IF ~IsDigit(s[i]) THEN [err |-> TRUE, mag |-> acc]
    ELSE LET next == MulAdd(acc, 10, DigitVal(s[i]))
         IN IF (IF neg THEN Above63Neg(next) ELSE Above63(next))
            THEN [err |-> TRUE, mag |-> next]
            ELSE ParseDigits(s, i + 1, next, neg)

\* strconv.Atoi(s): an optional sign, then one or more decimal digits, the
\* value within the 64-bit int range; err otherwise.  The result is the
\* sign and the magnitude in 8 bytes.
Atoi(s) ==
    LET signed == Len(s) > 0 /\ s[1] \in {"-", "+"}
        neg == Len(s) > 0 /\ s[1] = "-"
        first == IF signed THEN 2 ELSE 1
    IN IF first > Len(s)
       THEN [err |-> TRUE, neg |-> FALSE, mag |-> Zeros(IntBytes)]
       ELSE LET r == ParseDigits(s, first, Zeros(IntBytes + 1), neg)
            IN [err |-> r.err, neg |-> neg, mag |-> SubSeq(r.mag, 1, IntBytes)]

\* loadConfig, line 70.
DefaultInterval == 60

\* time.Second in nanoseconds is 10^NanoDigits.
NanoDigits == 9

\* loadConfig, lines 67-71: the interval in seconds, as a magnitude.
IntervalSeconds(s) ==
    LET r == Atoi(s)
    IN IF r.err \/ r.neg \/ IsZero(r.mag)
       THEN Small(DefaultInterval, IntBytes)
       ELSE r.mag

\* loadConfig, line 72: time.Duration(interval) * time.Second, a 64-bit
\* multiplication that wraps.
ScrapeInterval(s) == TimesTenTo(IntervalSeconds(s), NanoDigits)

\* ---------------------------------------------------------------- state

VARIABLES
    env,            \* which of EXPORTER_API_URL, _USER, _PASSWORD are set, and
                    \*   the value of EXPORTER_SCRAPE_INTERVAL_SECONDS
    cfg,            \* the Config loadConfig returned
    mainpc,         \* main: "load", "loaded", "listen", "serving", "fatal";
                    \*   "panic" once a goroutine has panicked
    pc,             \* startScrapingLoop: "off", "start", "scrape", "fetch",
                    \*   "fetched", "update", "reset", "range", "set", "wait",
                    \*   "panic"
    tickPending,    \* ticker.C (capacity 1) holds a tick
    dropped,        \* the last tick offered found ticker.C full and was dropped
    cycles,         \* loop iterations started
    ticksConsumed,  \* receives from ticker.C completed
    resp,           \* what the HTTP round trip of this cycle gave
    body,           \* fetchBlockedIPs' first result
    err,            \* fetchBlockedIPs' second result ("" is nil)
    values,         \* updateMetrics: resp.Values
    idx,            \* updateMetrics: position of the range loop
    cur,            \* updateMetrics: the gauge With returned, awaiting Set
    blockedIP,      \* the GaugeVec's map: records [labels, obj]
    gauges,         \* the gauge objects' values, by object number
    before,         \* blockedIP and gauges when the current cycle started
    published,      \* values set of the last updateMetrics that returned at line 131
    everOK,         \* some updateMetrics has returned at line 131
    fails,          \* cycles completed without publishing since the last one that did
    updateCalled,   \* updateMetrics was called in the current cycle
    rpc,            \* /metrics handler: "idle", "write", "done"
    pending,        \* gauges Collect sent that are not yet written
    out,            \* series written to the response so far
    rstatus,        \* status of the last /metrics response (0: none yet)
    hreq,           \* flips with every /health request handled
    hstatus,        \* status of the last /health response (0: none yet)
    hbody           \* body of the last /health response

loopVars == <<pc, tickPending, dropped, cycles, ticksConsumed, resp, body, err, values,
              idx, cur, before, published, everOK, fails, updateCalled>>
storeVars == <<blockedIP, gauges>>
renderVars == <<rpc, pending, out, rstatus>>
healthVars == <<hreq, hstatus, hbody>>
vars == <<env, cfg, mainpc, loopVars, storeVars, renderVars, healthVars>>

\* The process runs: no log.Fatalf and no panic has ended it.
Alive == mainpc \notin {"fatal", "panic"}

\* The values of EXPORTER_SCRAPE_INTERVAL_SECONDS the whole program is
\* explored with: unset, and one whose Duration overflows.
ExploredIntervals ==
    { <<>>, <<"9","2","2","3","3","7","2","0","3","7">> }

\* The state at the start of main, the interval variable being one of ivs.
InitWith(ivs) ==
    /\ env \in [url : BOOLEAN, user : BOOLEAN, password : BOOLEAN,
                 interval : ivs]
    /\ cfg = [ScrapeInterval |-> Zeros(IntBytes)]
    /\ mainpc = "load"
    /\ pc = "off"
    /\ tickPending = FALSE
    /\ dropped = FALSE
    /\ cycles = 0
    /\ ticksConsumed = 0
    /\ resp = NoResponse
    /\ body = NilBody
    /\ err = ""
    /\ values = <<>>
    /\ idx = 1
    /\ cur = 0
    /\ blockedIP = {}
    /\ gauges = <<>>
    /\ before = [metrics |-> {}, gauges |-> <<>>]
    /\ published = {}
    /\ everOK = FALSE
    /\ fails = 0
    /\ updateCalled = FALSE
    /\ rpc = "idle"
    /\ pending = {}
    /\ out = {}
    /\ rstatus = 0
    /\ hreq = FALSE
    /\ hstatus = 0
    /\ hbody = ""

Init == InitWith(ExploredIntervals)


\* ----------------------------------------------------------------- main

\* A check that forgets the password.
ConfigCompleteNoPassword(e) == e.url /\ e.user

\* loadConfig, lines 57-60: the three variables are mandatory.
ConfigComplete(e) == e.url /\ e.user /\ e.password

\* main, lines 160-164: loadConfig (lines 44-75); log.Fatalf ends the
\* process on an error.
LoadConfig ==
    /\ mainpc = "load"
    /\ IF ConfigComplete(env)
       THEN /\ mainpc' = "loaded"
            /\ cfg' = [ScrapeInterval |-> ScrapeInterval(env.interval)]
       ELSE /\ mainpc' = "fatal"
            /\ cfg' = cfg
    /\ UNCHANGED <<env, loopVars, storeVars, renderVars, healthVars>>

\* main, lines 166-170: MustRegister(blockedIP); go startScrapingLoop(cfg).
GoScrapingLoop ==
    /\ mainpc = "loaded"
    /\ mainpc' = "listen"
    /\ pc' = "start"
    /\ UNCHANGED <<env, cfg, tickPending, dropped, cycles, ticksConsumed, resp, body, err,
                   values, idx, cur, before, published, everOK, fails,
                   updateCalled, storeVars, renderVars, healthVars>>

\* main, lines 172-181: the handlers are registered and ListenAndServe
\* either binds and serves or returns an error, which is fatal.
ListenAndServe ==
    /\ mainpc = "listen"
    /\ \E bound \in BOOLEAN : mainpc' = IF bound THEN "serving" ELSE "fatal"
    /\ UNCHANGED <<env, cfg, loopVars, storeVars, renderVars, healthVars>>

\* ---------------------------------------------------------- scrape loop

\* A loop written "for range ticker.C": the body waits for the first tick.
NewTickerWaitsFirst ==
    /\ Alive /\ pc = "start"
    /\ pc' = "wait"
    /\ UNCHANGED <<env, cfg, mainpc, tickPending, dropped, cycles, ticksConsumed, resp, body,
                   err, values, idx, cur, before, published, everOK, fails,
                   updateCalled, storeVars, renderVars, healthVars>>

\* startScrapingLoop, line 136: the ticker exists from here on; the for
\* statement has no init and no condition, so the body runs at once.
\* time.NewTicker panics on a period that is not positive, and a panic in a
\* goroutine ends the process.
NewTicker ==
    /\ Alive /\ pc = "start"
    /\ IF IsPositive(cfg.ScrapeInterval)
       THEN pc' = "scrape" /\ mainpc' = mainpc
       ELSE pc' = "panic" /\ mainpc' = "panic"
    /\ UNCHANGED <<env, cfg, tickPending, dropped, cycles, ticksConsumed, resp, body,
                   err, values, idx, cur, before, published, everOK, fails,
                   updateCalled, storeVars, renderVars, healthVars>>

\* The runtime's timer: every period it offers a tick to ticker.C, a channel
\* of capacity 1; a tick offered while one is pending is dropped.
Tick ==
    /\ Alive /\ pc \notin {"off", "start"}
    /\ tickPending' = TRUE
    /\ dropped' = tickPending
    /\ UNCHANGED <<env, cfg, mainpc, pc, cycles, ticksConsumed, resp, body, err,
                   values, idx, cur, before, published, everOK, fails,
                   updateCalled, storeVars, renderVars, healthVars>>

\* startScrapingLoop, line 141: the loop body starts.
ScrapeBegin ==
    /\ Alive /\ pc = "scrape"
    /\ pc' = "fetch"
    /\ cycles' = cycles + 1
    /\ before' = [metrics |-> blockedIP, gauges |-> gauges]
    /\ updateCalled' = FALSE
    /\ resp' = NoResponse
    /\ body' = NilBody
    /\ err' = ""
    /\ values' = <<>>
    /\ UNCHANGED <<env, cfg, mainpc, tickPending, dropped, ticksConsumed, idx, cur,
                   published, everOK, fails, storeVars, renderVars, healthVars>>

\* fetchBlockedIPs without the status check of lines 102-104.
fetchBlockedIPsAnyStatus(o) ==
    CASE o.stage = "request" ->
            [body |-> NilBody, err |-> "error creating request"]
      [] o.stage = "do" ->
            [body |-> NilBody, err |-> "error making request"]
      [] o.stage = "read" ->
            [body |-> NilBody, err |-> "error reading response body"]
      [] OTHER ->
            [body |-> o.payload, err |-> ""]

\* fetchBlockedIPs, lines 89-111: the body and the error it returns for one
\* outcome of the round trip.
fetchBlockedIPs(o) ==
    CASE o.stage = "request" ->
            [body |-> NilBody, err |-> "error creating request"]
      [] o.stage = "do" ->
            [body |-> NilBody, err |-> "error making request"]
      [] o.status # StatusOK ->
            [body |-> NilBody, err |-> "unexpected status code"]
      [] o.stage = "read" ->
            [body |-> NilBody, err |-> "error reading response body"]
      [] OTHER ->
            [body |-> o.payload, err |-> ""]

\* startScrapingLoop, line 142: the call of fetchBlockedIPs returns.
Fetch ==
    /\ Alive /\ pc = "fetch"
    /\ \E o \in HttpOutcomes :
         /\ resp' = o
         /\ body' = fetchBlockedIPs(o).body
         /\ err' = fetchBlockedIPs(o).err
    /\ pc' = "fetched"
    /\ UNCHANGED <<env, cfg, mainpc, tickPending, dropped, cycles, ticksConsumed, values,
                   idx, cur, before, published, everOK, fails, updateCalled,
                   storeVars, renderVars, healthVars>>

\* An error branch that also empties the metrics (fresh but empty).
ScrapeErrorClears ==
    /\ Alive /\ pc = "fetched" /\ err # ""
    /\ pc' = "wait"
    /\ fails' = fails + 1
    /\ blockedIP' = {}
    /\ UNCHANGED <<env, cfg, mainpc, tickPending, dropped, cycles, ticksConsumed, resp, body,
                   err, values, idx, cur, before, published, everOK,
                   updateCalled, gauges, renderVars, healthVars>>

\* An error branch that re-arms the ticker (ticker.Reset): a tick that
\* fired during the cycle is discarded.
ScrapeErrorRearms ==
    /\ Alive /\ pc = "fetched" /\ err # ""
    /\ pc' = "wait"
    /\ fails' = fails + 1
    /\ tickPending' = FALSE
    /\ UNCHANGED <<env, cfg, mainpc, dropped, cycles, ticksConsumed, resp, body,
                   err, values, idx, cur, before, published, everOK,
                   updateCalled, storeVars, renderVars, healthVars>>

\* An error branch written with log.Fatalf: the process ends.
ScrapeErrorFatal ==
    /\ Alive /\ pc = "fetched" /\ err # ""
    /\ pc' = "wait"
    /\ mainpc' = "fatal"
    /\ fails' = fails + 1
    /\ UNCHANGED <<env, cfg, tickPending, dropped, cycles, ticksConsumed, resp, body,
                   err, values, idx, cur, before, published, everOK,
                   updateCalled, storeVars, renderVars, healthVars>>

\* startScrapingLoop, lines 143-144: the error is logged and the iteration
\* ends; the post statement <-ticker.C is next.
ScrapeError ==
    /\ Alive /\ pc = "fetched" /\ err # ""
    /\ pc' = "wait"
    /\ fails' = fails + 1
    /\ UNCHANGED <<env, cfg, mainpc, tickPending, dropped, cycles, ticksConsumed, resp, body,
                   err, values, idx, cur, before, published, everOK,
                   updateCalled, storeVars, renderVars, healthVars>>

\* startScrapingLoop, lines 145-146: updateMetrics(body) is called.
CallUpdateMetrics ==
    /\ Alive /\ pc = "fetched" /\ err = ""
    /\ pc' = "update"
    /\ updateCalled' = TRUE
    /\ UNCHANGED <<env, cfg, mainpc, tickPending, dropped, cycles, ticksConsumed, resp, body,
                   err, values, idx, cur, before, published, everOK, fails,
                   storeVars, renderVars, healthVars>>

\* updateMetrics without the success check of lines 121-124.
AcceptedIgnoringSuccess(r) == ~r.err

\* updateMetrics, lines 116-124: the decoded response goes on to the metrics
\* only if it decoded and says success.
Accepted(r) == ~r.err /\ r.Success

\* updateMetrics, lines 115-124.
UpdateMetricsDecode ==
    /\ Alive /\ pc = "update"
    /\ LET r == Unmarshal(body) IN
         IF Accepted(r)
         THEN /\ values' = r.Values
              /\ idx' = 1
              /\ pc' = "reset"
              /\ fails' = fails
         ELSE /\ pc' = "wait"
              /\ fails' = fails + 1
              /\ UNCHANGED <<values, idx>>
    /\ UNCHANGED <<env, cfg, mainpc, tickPending, dropped, cycles, ticksConsumed, resp, body,
                   err, cur, before, published, everOK, updateCalled,
                   storeVars, renderVars, healthVars>>

\* A Reset that deletes nothing: the new entries are merged into the old.
ResetVecKeeps(ms) == ms

\* GaugeVec.Reset: under the write lock, every entry of the map is deleted.
ResetVec(ms) == {}

\* updateMetrics, line 127.
Reset ==
    /\ Alive /\ pc = "reset"
    /\ blockedIP' = ResetVec(blockedIP)
    /\ pc' = "range"
    /\ UNCHANGED <<env, cfg, mainpc, tickPending, dropped, cycles, ticksConsumed, resp, body,
                   err, values, idx, cur, before, published, everOK, fails,
                   updateCalled, gauges, renderVars, healthVars>>

\* The entries of the map with these label values (none or one).
Lookup(ms, lv) == { m \in ms : m.labels = lv }

\* A gauge made by newMetric holds 0 until it is set.
NewGaugeValue == 0

\* updateMetrics, line 129, blockedIP.With(labels): under the lock, the gauge
\* of these label values, created (with value 0) if the map has none.
With ==
    /\ Alive /\ pc = "range" /\ idx <= Len(values)
    /\ LET lv == values[idx]
           found == Lookup(blockedIP, lv)
       IN IF found # {}
          THEN /\ cur' = (CHOOSE m \in found : TRUE).obj
               /\ UNCHANGED <<blockedIP, gauges>>
          ELSE /\ gauges' = Append(gauges, NewGaugeValue)
               /\ cur' = Len(gauges) + 1
               /\ blockedIP' = blockedIP \cup {[labels |-> lv, obj |-> Len(gauges) + 1]}
    /\ pc' = "set"
    /\ UNCHANGED <<env, cfg, mainpc, tickPending, dropped, cycles, ticksConsumed, resp, body,
                   err, values, idx, before, published, everOK, fails,
                   updateCalled, renderVars, healthVars>>

\* SetToCurrentTime() in place of Set(1): the value stored differs from one
\* cycle to the next.
SetToCurrentTime ==
    /\ Alive /\ pc = "set"
    /\ gauges' = [gauges EXCEPT ![cur] = cycles]
    /\ idx' = idx + 1
    /\ pc' = "range"
    /\ UNCHANGED <<env, cfg, mainpc, tickPending, dropped, cycles, ticksConsumed, resp, body,
                   err, values, cur, before, published, everOK, fails,
                   updateCalled, blockedIP, renderVars, healthVars>>

\* updateMetrics, line 129, .Set(1): an atomic store into the gauge.
Set ==
    /\ Alive /\ pc = "set"
    /\ gauges' = [gauges EXCEPT ![cur] = 1]
    /\ idx' = idx + 1
    /\ pc' = "range"
    /\ UNCHANGED <<env, cfg, mainpc, tickPending, dropped, cycles, ticksConsumed, resp, body,
                   err, values, cur, before, published, everOK, fails,
                   updateCalled, blockedIP, renderVars, healthVars>>

\* updateMetrics, lines 128-132: the range loop is over; log and return.
UpdateMetricsReturn ==
    /\ Alive /\ pc = "range" /\ idx > Len(values)
    /\ published' = Range(values)
    /\ everOK' = TRUE
    /\ fails' = 0
    /\ pc' = "wait"
    /\ UNCHANGED <<env, cfg, mainpc, tickPending, dropped, cycles, ticksConsumed, resp, body,
                   err, values, idx, cur, before, updateCalled, storeVars,
                   renderVars, healthVars>>

\* A receive from a ticker that queues missed ticks: one is still pending
\* after the receive when ticks were missed.
ConsumeTickBacklog ==
    /\ Alive /\ pc = "wait" /\ tickPending
    /\ cycles < MaxCycles
    /\ tickPending' = dropped
    /\ ticksConsumed' = ticksConsumed + 1
    /\ pc' = "scrape"
    /\ UNCHANGED <<env, cfg, mainpc, dropped, cycles, resp, body, err, values, idx, cur,
                   before, published, everOK, fails, updateCalled, storeVars,
                   renderVars, healthVars>>

\* startScrapingLoop, line 140: the post statement <-ticker.C receives the
\* pending tick; the body runs again.
ConsumeTick ==
    /\ Alive /\ pc = "wait" /\ tickPending
    /\ cycles < MaxCycles
    /\ tickPending' = FALSE
    /\ ticksConsumed' = ticksConsumed + 1
    /\ pc' = "scrape"
    /\ UNCHANGED <<env, cfg, mainpc, dropped, cycles, resp, body, err, values, idx, cur,
                   before, published, everOK, fails, updateCalled, storeVars,
                   renderVars, healthVars>>

\* ------------------------------------------------------------- /metrics

Serving == mainpc = "serving"

\* GaugeVec.Collect: under the read lock, every gauge of the map is sent.
Collect(ms) == ms

\* Gauge.Write: the series of a gauge, its value loaded atomically.
Write(m, gs) == [labels |-> m.labels, value |-> gs[m.obj]]

\* A handler that answers 503 until a scrape has succeeded.
MetricsStatusNotReady(series) == IF everOK THEN 200 ELSE 503

\* promhttp.Handler: Gather fails, and the response is a 500, only when two
\* collected series carry the same label values.
MetricsStatus(series) ==
    IF \E a, b \in series : a # b /\ a.labels = b.labels THEN 500 ELSE 200

\* A handler that empties the metrics once it has collected them.
RenderCollectResets ==
    /\ Serving /\ rpc \in {"idle", "done"}
    /\ pending' = Collect(blockedIP)
    /\ out' = {}
    /\ rstatus' = 0
    /\ rpc' = "write"
    /\ blockedIP' = {}
    /\ UNCHANGED <<env, cfg, mainpc, loopVars, gauges, healthVars>>

\* /metrics, line 174: a request arrives and Gather collects blockedIP.
RenderCollect ==
    /\ Serving /\ rpc \in {"idle", "done"}
    /\ pending' = Collect(blockedIP)
    /\ out' = {}
    /\ rstatus' = 0
    /\ rpc' = "write"
    /\ UNCHANGED <<env, cfg, mainpc, loopVars, storeVars, healthVars>>

\* /metrics: one collected gauge is written into the response.
RenderWrite ==
    /\ Serving /\ rpc = "write"
    /\ \E m \in pending :
         /\ out' = out \cup {Write(m, gauges)}
         /\ pending' = pending \ {m}
    /\ UNCHANGED <<env, cfg, mainpc, loopVars, storeVars, rpc, rstatus, healthVars>>

\* /metrics: the response is sent.
RenderRespond ==
    /\ Serving /\ rpc = "write" /\ pending = {}
    /\ rstatus' = MetricsStatus(out)
    /\ rpc' = "done"
    /\ UNCHANGED <<env, cfg, mainpc, loopVars, storeVars, pending, out, healthVars>>

\* -------------------------------------------------------------- /health

\* A health check that reports the upstream: 503 after a failed scrape.
HealthStatusFromScrape == IF fails > 0 THEN 503 ELSE 200

\* healthCheckHandler, line 154: http.StatusOK.
HealthStatus == 200

\* healthCheckHandler, line 156.
HealthBody == "{\"status\": \"ok\"}"

\* healthCheckHandler, lines 152-157.
healthCheckHandler ==
    /\ Serving
    /\ hreq' = ~hreq
    /\ hstatus' = HealthStatus
    /\ hbody' = HealthBody
    /\ UNCHANGED <<env, cfg, mainpc, loopVars, storeVars, renderVars>>

\* ---------------------------------------------------- views of the store

\* The label values the map holds.
Keys(ms) == { m.labels : m \in ms }

\* The series a render of the map ms would show, the gauges being gs.
View(ms, gs) == { Write(m, gs) : m \in ms }

\* The series of an entry set: one per entry, each with value 1.
Snapshot(E) == { [labels |-> e, value |-> 1] : e \in E }

\* updateMetrics is between its success check and its return.
Replacing == pc \in {"reset", "range", "set"}

\* The entry set the store is being brought to.
Target == IF Replacing THEN Range(values) ELSE published

\* This step is the Collect of a /metrics request.
CollectStep == rpc # "write" /\ rpc' = "write"

\* The round trip of the current cycle failed in fetchBlockedIPs.
FetchFailed ==
    \/ resp.stage \in {"request", "do", "read"}
    \/ resp.stage = "resp" /\ resp.status # StatusOK

\* The round trip of the current cycle gave status 200 and a readable body.
Fetched == resp.stage = "resp" /\ resp.status = StatusOK

\* ------------------------------------------------------- specification

Next ==
    \/ LoadConfig
    \/ GoScrapingLoop
    \/ ListenAndServe
    \/ NewTicker
    \/ Tick
    \/ ScrapeBegin
    \/ Fetch
    \/ ScrapeError
    \/ CallUpdateMetrics
    \/ UpdateMetricsDecode
    \/ Reset
    \/ With
    \/ Set
    \/ UpdateMetricsReturn
    \/ ConsumeTick
    \/ RenderCollect
    \/ RenderWrite
    \/ RenderRespond
    \/ healthCheckHandler

Spec == Init /\ [][Next]_vars

\* Startup alone: loadConfig over every value of the interval variable, up
\* to the creation of the ticker.
InitConfig == InitWith(IntervalStrings)

NextConfig ==
    \/ LoadConfig
    \/ GoScrapingLoop
    \/ NewTicker

SpecConfig == InitConfig /\ [][NextConfig]_vars

\* The steps of the goroutine that runs startScrapingLoop.
LoopStep ==
    \/ NewTicker
    \/ ScrapeBegin
    \/ ScrapeError
    \/ CallUpdateMetrics
    \/ UpdateMetricsDecode
    \/ Reset
    \/ With
    \/ Set
    \/ UpdateMetricsReturn
    \/ ConsumeTick

\* main and the scrape loop, without requests to the HTTP server.
NextLoop ==
    \/ LoadConfig
    \/ GoScrapingLoop
    \/ ListenAndServe
    \/ NewTicker
    \/ Tick
    \/ ScrapeBegin
    \/ Fetch
    \/ ScrapeError
    \/ CallUpdateMetrics
    \/ UpdateMetricsDecode
    \/ Reset
    \/ With
    \/ Set
    \/ UpdateMetricsReturn
    \/ ConsumeTick

LoopSpec == Init /\ [][NextLoop]_vars

\* main, the scrape loop and requests to /metrics.
NextMetrics ==
    \/ NextLoop
    \/ RenderCollect
    \/ RenderWrite
    \/ RenderRespond

MetricsSpec == Init /\ [][NextMetrics]_vars

\* main, the scrape loop and requests to /health.
NextHealth ==
    \/ NextLoop
    \/ healthCheckHandler

HealthSpec == Init /\ [][NextHealth]_vars

\* The scheduler runs the goroutine while it can step, the ticker keeps
\* offering ticks, and httpClient's 10 s timeout (line 30) makes every
\* round trip return.
LiveSpec ==
    /\ LoopSpec
    /\ WF_vars(LoopStep)
    /\ WF_vars(Tick)
    /\ WF_vars(Fetch)


\* ---------------------------------------------------------------- claims

\* C1: a /metrics render that runs concurrently with a replace from the old
\* snapshot O to the new snapshot N collects exactly the series of O or
\* exactly the series of N, never a partly cleared or partly filled map.
C1_RenderSeesOldOrNew ==
    [][CollectStep => Keys(pending') \in {published, Target}]_vars

\* C2: once a cycle whose fetch gave status 200 and a payload that decodes
\* with success=true has completed, the store holds exactly one series per
\* distinct (ip, uuid) pair of the payload's values, each with value 1, and
\* nothing else.
C2_StoreIsPayload ==
    (pc = "wait" /\ Fetched /\ resp.payload.kind = "json" /\ resp.payload.success)
    => /\ View(blockedIP, gauges) = Snapshot(Range(resp.payload.values))
       /\ Cardinality(blockedIP) = Cardinality(Range(resp.payload.values))

\* C2 witness: a completed cycle whose payload lists one pair twice, over a
\* store that held another pair before.
C2_Witness ==
    /\ pc = "wait" /\ Fetched /\ resp.payload.kind = "json" /\ resp.payload.success
    /\ Len(resp.payload.values) = 2
    /\ Cardinality(Range(resp.payload.values)) = 1
    /\ before.metrics # {}
    /\ Keys(before.metrics) \cap Range(resp.payload.values) = {}
    /\ Cardinality(blockedIP) = 1

\* C3: a cycle whose payload does not decode, or decodes with success=false
\* (whatever its values), leaves the store as it was when the cycle started.
C3_ParseFailureKeepsStore ==
    (pc = "wait" /\ Fetched
        /\ (resp.payload.kind # "json" \/ ~resp.payload.success))
    => /\ blockedIP = before.metrics
       /\ gauges = before.gauges

\* C3 witness: a success=false payload with values, over a non-empty store.
C3_Witness ==
    /\ pc = "wait" /\ Fetched
    /\ resp.payload.kind = "json" /\ ~resp.payload.success
    /\ resp.payload.values # <<>>
    /\ blockedIP # {}
    /\ Range(resp.payload.values) # Keys(blockedIP)

\* C4: a cycle whose fetch fails never calls updateMetrics and leaves the
\* store as it was when the cycle started, whatever body a non-200 response
\* carries; the loop is back at its receive from the ticker.
C4_FetchFailureKeepsStore ==
    FetchFailed
    => /\ pc \in {"fetched", "wait", "scrape"}
       /\ ~updateCalled
       /\ blockedIP = before.metrics
       /\ gauges = before.gauges

\* C4 witness: a 500 response carrying a well-formed success=true body whose
\* values differ from the stored ones, the loop waiting for the next tick.
C4_Witness ==
    /\ pc = "wait" /\ resp.stage = "resp" /\ resp.status = 500
    /\ resp.payload.kind = "json" /\ resp.payload.success
    /\ blockedIP # {}
    /\ Range(resp.payload.values) # Keys(blockedIP)

\* C5: after a cycle that published the entry set E, and while one or more
\* cycles have since ended without publishing, a /metrics request collects
\* exactly the series of E, each gauge holding 1; a gauge that holds 1
\* keeps it.
C5_LastGoodServed ==
    /\ [][(CollectStep /\ everOK /\ fails >= 1 /\ ~Replacing)
            => /\ Keys(pending') = published
               /\ Cardinality(pending') = Cardinality(published)
               /\ \A m \in pending' : gauges[m.obj] = 1]_vars
    /\ [][\A i \in DOMAIN gauges : gauges[i] = 1 => gauges'[i] = 1]_vars

\* C5 witness: two failed cycles after a published non-empty set, and a
\* request that has just collected the gauges of that set.
C5_Witness ==
    /\ everOK /\ fails >= 2 /\ pc = "wait" /\ published # {}
    /\ rpc = "write" /\ out = {}
    /\ pending = blockedIP
    /\ Keys(pending) = published

\* C6: every series a /metrics response contains has value 1, also when the
\* render runs between a gauge's creation by With and its Set(1).
C6_EverySeriesIsOne == \A s \in out : s.value = 1

\* C7: /metrics answers 200 in every state of the scrape loop, with what is
\* stored at that moment, and before any cycle has published that is no
\* series at all.
C7_MetricsAlwaysServes ==
    /\ [](rstatus \in {0, 200} /\ (rpc = "done" => rstatus = 200))
    /\ [][CollectStep => pending' = blockedIP]_vars
    /\ [][(CollectStep /\ ~everOK /\ ~Replacing) => pending' = {}]_vars

\* C7 witness: a 200 response without series, sent while no scrape has
\* succeeded, a cycle has failed and the next fetch is in flight.
C7_Witness ==
    /\ rpc = "done" /\ rstatus = 200 /\ out = {}
    /\ ~everOK /\ fails >= 1 /\ pc = "fetch"

\* C8: /health answers 200 with the fixed ok body in every state of the
\* scrape loop, and handling it leaves the store alone.
C8_HealthAlwaysOk ==
    /\ [](hstatus = 0 \/ (hstatus = 200 /\ hbody = "{\"status\": \"ok\"}"))
    /\ [][hreq' # hreq
            => /\ hstatus' = 200
               /\ hbody' = "{\"status\": \"ok\"}"
               /\ UNCHANGED <<blockedIP, gauges>>]_vars

\* C8 witness: /health has answered 200 while every scrape so far failed
\* and a fetch is in flight.
C8_Witness ==
    /\ hstatus = 200 /\ hreq
    /\ ~everOK /\ fails >= 1 /\ pc = "fetch"

\* C9: when two consecutive cycles publish the same entry set, the store
\* after the second shows the same series, in number and value, as after
\* the first.
C9_ReplaceIdempotent ==
    [][(pc = "range" /\ pc' = "wait" /\ everOK /\ fails = 0
          /\ Range(values) = published)
         => /\ View(blockedIP', gauges') = View(before.metrics, before.gauges)
            /\ Cardinality(blockedIP') = Cardinality(before.metrics)]_vars

\* C9 witness: the second of two cycles has published the two pairs the
\* first one published.
C9_Witness ==
    /\ cycles = 2 /\ pc = "wait" /\ everOK /\ fails = 0
    /\ Cardinality(published) = 2
    /\ Keys(before.metrics) = published
    /\ blockedIP # before.metrics

\* C10: the first cycle starts with no tick consumed, and the n-th cycle
\* starts only after n-1 ticks have been consumed.
C10_FirstCycleImmediate ==
    /\ cycles = 0 => ticksConsumed = 0
    /\ cycles >= 1 =>
         ticksConsumed = (IF pc = "scrape" THEN cycles ELSE cycles - 1)

\* C10 witness: the first fetch is in flight and the ticker has not fired.
C10_Witness ==
    /\ cycles = 1 /\ pc = "fetch" /\ ticksConsumed = 0 /\ ~tickPending

\* C11: no outcome of a cycle ends the loop: while the process serves, the
\* n-th cycle is always followed by the start of cycle n+1 (up to the number
\* of cycles explored), given that the ticker keeps ticking and every fetch
\* returns.
C11_LoopNeverStops ==
    \A n \in 1..(MaxCycles - 1) :
        (Serving /\ cycles = n) ~> (cycles = n + 1)

\* C11 witness: a cycle has started after a failed fetch and a payload that
\* did not publish.
C11_Witness ==
    /\ Serving /\ cycles = MaxCycles /\ pc = "fetch"
    /\ fails = MaxCycles - 1 /\ ~everOK

\* C12: with EXPORTER_API_URL, EXPORTER_USER or EXPORTER_PASSWORD missing,
\* the process ends in loadConfig's fatal exit: the scrape loop is never
\* started, no fetch is issued and no request is served.
C12_MissingConfigIsFatal ==
    ~(env.url /\ env.user /\ env.password)
    => /\ mainpc \in {"load", "fatal"}
       /\ pc = "off"
       /\ cycles = 0
       /\ resp = NoResponse
       /\ rpc = "idle" /\ rstatus = 0
       /\ hstatus = 0 /\ ~hreq

\* C12 witness: the process has exited with only the password missing.
C12_Witness ==
    /\ mainpc = "fatal" /\ env.url /\ env.user /\ ~env.password
    /\ pc = "off"

\* The exact product of a magnitude and 10^9, in 12 bytes.
WideBytes == 12

ExactNanos(m) == TimesTenTo(Widen(m, WideBytes), NanoDigits)

\* C13: the scrape interval is the parsed number of seconds when the
\* variable parses as an integer greater than 0, and 60 seconds for every
\* other value.
C13_IntervalIsParsedSeconds ==
    mainpc \notin {"load", "fatal"}
    => LET r == Atoi(env.interval)
           seconds == IF ~r.err /\ ~r.neg /\ ~IsZero(r.mag)
                      THEN r.mag
                      ELSE Small(60, IntBytes)
       IN /\ ~IsNegative(cfg.ScrapeInterval)
          /\ Widen(cfg.ScrapeInterval, WideBytes) = ExactNanos(seconds)

\* C14: a tick that fires during a cycle stays pending until the loop
\* receives it; the ticker can fire in every state of the loop; and the
\* loop, back at its receive with a tick pending, starts the next cycle by
\* receiving it, with no further tick needed.
C14_PendingTickStartsNextCycle ==
    /\ [][(tickPending /\ ~(pc = "wait" /\ pc' = "scrape")) => tickPending']_vars
    /\ [][(pc = "wait" /\ pc' # "wait")
            => /\ tickPending /\ ~tickPending'
               /\ pc' = "scrape"
               /\ ticksConsumed' = ticksConsumed + 1]_vars
    /\ []((Alive /\ pc \notin {"off", "start"}) => ENABLED Tick)
    /\ []((Alive /\ pc = "wait" /\ tickPending /\ cycles < MaxCycles)
            => ENABLED ConsumeTick)

\* C14 witness: the first cycle is between With and Set and a tick has
\* fired meanwhile.
C14_Witness ==
    /\ pc = "set" /\ cycles = 1 /\ tickPending /\ ticksConsumed = 0

\* C15: the store has one writer: it changes only in steps of updateMetrics
\* between its success check and its return, never in a step of an HTTP
\* handler, and an iteration of the loop starts only from the loop head,
\* after the previous one has reached the receive from the ticker.
C15_SingleWriter ==
    /\ [][(blockedIP' # blockedIP \/ gauges' # gauges)
            => /\ Replacing
               /\ UNCHANGED <<rpc, pending, out, rstatus, hreq, hstatus, hbody>>]_vars
    /\ [][cycles' # cycles
            => cycles' = cycles + 1 /\ pc = "scrape" /\ pc' = "fetch"]_vars
    /\ [][(pc' = "scrape" /\ pc # "scrape") => (pc \in {"start", "wait"})]_vars
    /\ [](Replacing => (updateCalled /\ cycles >= 1))

\* C15 witness: the second cycle is replacing the store while a /metrics
\* request is being written and /health has answered.
C15_Witness ==
    /\ pc = "set" /\ cycles = 2 /\ before.metrics # {}
    /\ rpc = "write" /\ hstatus = 200

\* C16: every series a render collects belongs to the snapshot published
\* last or to the one being published, and a response holds only series of
\* collected gauges.
C16_RenderSeesOnlyOldOrNew ==
    /\ [][CollectStep => Keys(pending') \subseteq (published \cup Target)]_vars
    /\ [][(rpc = "write" /\ out' # out)
            => { x.labels : x \in out' }
                 \subseteq ({ x.labels : x \in out } \cup Keys(pending))]_vars

\* C16 witness: a render has collected a partly filled map: one of the two
\* pairs being published, over a store that held none of them.
C16_Witness ==
    /\ rpc = "write" /\ pending = blockedIP /\ out = {}
    /\ Replacing /\ pending # {}
    /\ Keys(pending) # published
    /\ Keys(pending) # Range(values)

\* C17: ticker.C holds at most one tick: a tick offered while one is pending
\* is dropped without trace, the receive leaves no tick pending however
\* many were dropped, and the loop then cannot start a cycle before a fresh
\* tick.
C17_MissedTicksDoNotAccumulate ==
    /\ [][(pc = "wait" /\ pc' = "scrape") => ~tickPending']_vars
    /\ [][(dropped' /\ ~dropped)
            => /\ tickPending /\ tickPending'
               /\ UNCHANGED <<pc, cycles, ticksConsumed>>]_vars
    /\ []((pc = "wait" /\ ~tickPending) => ~ENABLED ConsumeTick)

\* C17 witness: ticks were dropped during the first cycle, the second cycle
\* started on the one pending tick and has ended, and no tick is pending.
C17_Witness ==
    /\ pc = "wait" /\ cycles = 2 /\ ticksConsumed = 1
    /\ dropped /\ ~tickPending

\* C18: the ScrapeInterval loadConfig returns is strictly positive for
\* every value of the variable, and the ticker is never created with a
\* period that is not.
C18_IntervalPositive ==
    /\ mainpc \notin {"load", "fatal"} => IsPositive(cfg.ScrapeInterval)
    /\ pc # "panic"

====
